---- MODULE Spec2Model ----
(***************************************************************************)
(* Model of esp/main/main.ino: a polling loop that reads one command byte  *)
(* from the serial channel per iteration, while the BLE HID transport      *)
(* reports a connection, and turns it into mouse reports and a diagnostic  *)
(* line.  The transport's connection status and the serial receive buffer  *)
(* are changed by the environment (the BLE stack and the UART driver) at   *)
(* any point between two statements of loop().                             *)
(***************************************************************************)
EXTENDS Integers, Sequences, FiniteSets

VARIABLES
    connected,    \* bleMouse.isConnected(): the transport's status
    rxbuf,        \* bytes pending in the serial receive buffer, oldest first
    arrived,      \* history: every byte that arrived on the serial channel
    arrivedConn,  \* history: the status at the moment each byte arrived
    hist,         \* history: one record per byte read, with what its dispatch emitted
    pc,           \* the statement of loop() that runs next
    input,        \* char input (line 15)
    i,            \* int i of the for loops
    queried,      \* what isConnected() returned in this iteration
    nq,           \* number of isConnected() calls of this iteration
    avail,        \* what Serial.available() returned in this iteration
    reads,        \* number of Serial.read() calls of this iteration
    iterLog,      \* the events of this iteration, in order
    dropped       \* history: the peer disconnected after the first move of this burst

vars == <<connected, rxbuf, arrived, arrivedConn, hist, pc, input, i,
          queried, nq, avail, reads, iterLog, dropped>>

envVars == <<connected, rxbuf, arrived, arrivedConn>>
locals == <<input, i, queried, nq, avail, reads>>

\* Number of bytes the environment sends in one behaviour.
MaxArrived == 2

\* The case labels of the switch.
ChW == 119
ChS == 115
ChA == 97
ChD == 100
ChC == 99
ChR == 114
ChM == 109

\* Bytes the environment may send: the seven commands, 'z' and 'W'.
Chars == {ChW, ChS, ChA, ChD, ChC, ChR, ChM, 122, 87}

\* For the liveness check: one byte of each kind of arm of the switch
\* (a motion burst, a click, the default arm).
LiveChars == {ChW, ChC, 122}

NoChar == -1
None == "none"

\* The recorded answer of a status call.
Answer(b) == IF b THEN "true" ELSE "false"

\* Variant: input declared int, so println writes the number.
ChrAsInt(c) ==
    CASE c = 122 -> "122" [] c = 87 -> "87" [] OTHER -> "?"

\* What Serial.println(char) writes for a byte.
Chr(c) ==
    CASE c = 119 -> "w" [] c = 115 -> "s" [] c = 97 -> "a" [] c = 100 -> "d"
      [] c = 99 -> "c" [] c = 114 -> "r" [] c = 109 -> "m"
      [] c = 122 -> "z" [] c = 87 -> "W" [] OTHER -> "?"

(***************************************************************************)
(* Events: what the loop does to the outside world.                        *)
(***************************************************************************)
MoveEv(dx, dy) == [k |-> "move", x |-> dx, y |-> dy, s |-> ""]
ClickEv(b) == [k |-> "click", x |-> 0, y |-> 0, s |-> b]
DelayEv(ms) == [k |-> "delay", x |-> ms, y |-> 0, s |-> ""]
PrintEv(t) == [k |-> "print", x |-> 0, y |-> 0, s |-> t]
PrintlnEv(t) == [k |-> "println", x |-> 0, y |-> 0, s |-> t]

\* The switch: which arm a byte selects.
IsMotion(c) == c \in {ChW, ChS, ChA, ChD}
IsClick(c) == c \in {ChC, ChR, ChM}

SwitchTarget(c) ==
    IF IsMotion(c) THEN "fortest"
    ELSE IF IsClick(c) THEN "click"
    ELSE "print"

\* Variant: the signs of the horizontal moves swapped.
MoveDXMirrored(c) == CASE c = ChW -> 0 [] c = ChS -> 0 [] c = ChA -> 50 [] c = ChD -> -50

\* bleMouse.move(dx, dy) of each motion arm.
MoveDX(c) == CASE c = ChW -> 0 [] c = ChS -> 0 [] c = ChA -> -50 [] c = ChD -> 50
MoveDY(c) == CASE c = ChW -> -127 [] c = ChS -> 127 [] c = ChA -> 0 [] c = ChD -> 0

\* Variant: the pause of the first arm copied to all arms.
BurstDelayUniform(c) == 100

\* delay(ms) in the body of each for loop.
BurstDelayMs(c) == CASE c = ChW -> 100 [] c = ChS -> 100 [] c = ChA -> 50 [] c = ChD -> 40

\* Serial.println after each for loop.
Glyph(c) == CASE c = ChW -> "↑" [] c = ChS -> "↓" [] c = ChA -> "←" [] c = ChD -> "→"

\* bleMouse.click(button) and the Serial.println of each click arm.
Button(c) == CASE c = ChC -> "MOUSE_LEFT" [] c = ChR -> "MOUSE_RIGHT" [] c = ChM -> "MOUSE_MIDDLE"
ClickLabel(c) == CASE c = ChC -> "Click" [] c = ChR -> "Right click" [] c = ChM -> "Middle click"

\* Variant: a burst that stops when the peer is gone.
ForCondConnected(n) == n < 2 /\ connected

\* for (int i=0;i<2;++i)
ForCond(n) == n < 2

\* Variants: the connection test dropped; the connection test inverted.
ConnBranchAlways(q) == "available"
ConnBranchInverted(q) == IF q THEN "idle" ELSE "available"

\* if (bleMouse.isConnected()) ... else ...
ConnBranch(q) == IF q THEN "available" ELSE "idle"

\* if (Serial.available())
AvailBranch(buf) == IF Len(buf) > 0 THEN "read" ELSE "delay10"

\* Variants: a read that returns the newest byte; a read that drains the buffer.
ReadByteNewest(buf) == buf[Len(buf)]
ReadRestFlush(buf) == <<>>

\* Serial.read(): the byte returned and the buffer left.
ReadByte(buf) == Head(buf)
ReadRest(buf) == Tail(buf)

\* Variant: input received while disconnected is thrown away.
IdleBufFlush(buf) == <<>>

\* What the else arm of the connection test leaves in the receive buffer.
IdleBuf(buf) == buf

(***************************************************************************)
(* Emitting an event: it joins the iteration's log and, when a byte is     *)
(* being dispatched, the record of that byte.                              *)
(***************************************************************************)
Emit(e) ==
    /\ iterLog' = Append(iterLog, e)
    /\ hist' = IF reads > 0
               THEN [hist EXCEPT ![Len(hist)].out = Append(@, e)]
               ELSE hist
    /\ dropped' = dropped

\* A motion burst has emitted its first move report and is not over yet.
InBurst ==
    /\ pc \in {"fortest", "move", "delay", "println"}
    /\ \E n \in 1..Len(iterLog) : iterLog[n].k = "move"

Init ==
    /\ connected = FALSE
    /\ rxbuf = <<>>
    /\ arrived = <<>>
    /\ arrivedConn = <<>>
    /\ hist = <<>>
    /\ pc = "delay10"
    /\ input = NoChar
    /\ i = 0
    /\ queried = None
    /\ nq = 0
    /\ avail = None
    /\ reads = 0
    /\ iterLog = <<>>
    /\ dropped = FALSE

(***************************************************************************)
(* loop(), one statement per action.                                       *)
(***************************************************************************)
\* line 12: delay(10); a new iteration starts, with no input read and no status known yet.
Delay10 ==
    /\ pc = "delay10"
    /\ input' = NoChar
    /\ queried' = None
    /\ nq' = 0
    /\ avail' = None
    /\ reads' = 0
    /\ iterLog' = <<DelayEv(10)>>
    /\ dropped' = FALSE
    /\ pc' = "isConnected"
    /\ UNCHANGED <<envVars, hist, i>>

\* line 13: if (bleMouse.isConnected())
IsConnected ==
    /\ pc = "isConnected"
    /\ queried' = Answer(connected)
    /\ nq' = nq + 1
    /\ pc' = ConnBranch(connected)
    /\ UNCHANGED <<envVars, hist, input, i, avail, reads, iterLog, dropped>>

\* line 14: if (Serial.available())
Available ==
    /\ pc = "available"
    /\ avail' = Answer(Len(rxbuf) > 0)
    /\ pc' = AvailBranch(rxbuf)
    /\ UNCHANGED <<envVars, hist, input, i, queried, nq, reads, iterLog, dropped>>

\* line 15: char input = Serial.read();
Read ==
    /\ pc = "read"
    /\ Len(rxbuf) > 0
    /\ input' = ReadByte(rxbuf)
    /\ rxbuf' = ReadRest(rxbuf)
    /\ reads' = reads + 1
    /\ hist' = Append(hist, [ch |-> ReadByte(rxbuf), out |-> <<>>])
    /\ pc' = "switch"
    /\ UNCHANGED <<connected, arrived, arrivedConn, i, queried, nq, avail, iterLog, dropped>>

\* Variant: the loop counter is not set back to 0 (a counter shared by the bursts).
SwitchKeepCounter ==
    /\ pc = "switch"
    /\ pc' = SwitchTarget(input)
    /\ UNCHANGED <<envVars, hist, locals, iterLog, dropped>>

\* line 17: switch (input), and the int i=0 of the arm's for loop.
Switch ==
    /\ pc = "switch"
    /\ pc' = SwitchTarget(input)
    /\ i' = 0
    /\ UNCHANGED <<envVars, hist, input, queried, nq, avail, reads, iterLog, dropped>>

\* lines 19, 27, 35, 43: the test i<2 of the for loop.
ForTest ==
    /\ pc = "fortest"
    /\ pc' = IF ForCond(i) THEN "move" ELSE "println"
    /\ UNCHANGED <<envVars, hist, locals, iterLog, dropped>>

\* lines 20, 28, 36, 44: bleMouse.move(dx, dy);
Move ==
    /\ pc = "move"
    /\ Emit(MoveEv(MoveDX(input), MoveDY(input)))
    /\ pc' = "delay"
    /\ UNCHANGED <<envVars, locals>>

\* lines 21, 29, 37, 45: delay(ms); then ++i.
BurstDelay ==
    /\ pc = "delay"
    /\ Emit(DelayEv(BurstDelayMs(input)))
    /\ i' = i + 1
    /\ pc' = "fortest"
    /\ UNCHANGED <<envVars, input, queried, nq, avail, reads>>

\* lines 23, 31, 39, 47: Serial.println(glyph); break;
Println ==
    /\ pc = "println"
    /\ Emit(PrintlnEv(Glyph(input)))
    /\ pc' = "delay10"
    /\ UNCHANGED <<envVars, locals>>

\* lines 51, 56, 61: bleMouse.click(button);
Click ==
    /\ pc = "click"
    /\ Emit(ClickEv(Button(input)))
    /\ pc' = "clickln"
    /\ UNCHANGED <<envVars, locals>>

\* lines 52, 57, 62: Serial.println(label); break;
ClickLn ==
    /\ pc = "clickln"
    /\ Emit(PrintlnEv(ClickLabel(input)))
    /\ pc' = "delay10"
    /\ UNCHANGED <<envVars, locals>>

\* line 66: Serial.print("Unknown input: ");
PrintPrefix ==
    /\ pc = "print"
    /\ Emit(PrintEv("Unknown input: "))
    /\ pc' = "printchar"
    /\ UNCHANGED <<envVars, locals>>

\* line 67: Serial.println(input); break;
PrintlnInput ==
    /\ pc = "printchar"
    /\ Emit(PrintlnEv(Chr(input)))
    /\ pc' = "delay10"
    /\ UNCHANGED <<envVars, locals>>

\* line 73: delay(500);
Idle ==
    /\ pc = "idle"
    /\ iterLog' = Append(iterLog, DelayEv(500))
    /\ rxbuf' = IdleBuf(rxbuf)
    /\ pc' = "delay10"
    /\ UNCHANGED <<connected, arrived, arrivedConn, hist, locals, dropped>>

LoopStep ==
    \/ Delay10 \/ IsConnected \/ Available \/ Read \/ Switch
    \/ ForTest \/ Move \/ BurstDelay \/ Println
    \/ Click \/ ClickLn \/ PrintPrefix \/ PrintlnInput \/ Idle

(***************************************************************************)
(* The environment: the BLE stack and the serial peer.                     *)
(***************************************************************************)
Connect ==
    /\ ~connected
    /\ connected' = TRUE
    /\ UNCHANGED <<rxbuf, arrived, arrivedConn, hist, pc, locals, iterLog, dropped>>

Disconnect ==
    /\ connected
    /\ connected' = FALSE
    /\ dropped' = (dropped \/ InBurst)
    /\ UNCHANGED <<rxbuf, arrived, arrivedConn, hist, pc, locals, iterLog>>

\* The UART driver appends a received byte to the buffer Serial.available() looks at.
ArriveFrom(S) ==
    /\ Len(arrived) < MaxArrived
    /\ \E c \in S :
        /\ rxbuf' = Append(rxbuf, c)
        /\ arrived' = Append(arrived, c)
    /\ arrivedConn' = Append(arrivedConn, connected)
    /\ UNCHANGED <<connected, hist, pc, locals, iterLog, dropped>>

Arrive == ArriveFrom(Chars)

ArriveLive == ArriveFrom(LiveChars)

Next == LoopStep \/ Connect \/ Disconnect \/ Arrive

Spec == Init /\ [][Next]_vars

\* loop() is called again and again by the Arduino core, so the loop always takes
\* its next step; nothing is assumed of the peer or of the serial sender.
LiveNext == LoopStep \/ Connect \/ Disconnect \/ ArriveLive

LiveSpec == Init /\ [][LiveNext]_vars /\ WF_vars(LoopStep)

TypeOK ==
    /\ connected \in BOOLEAN
    /\ pc \in {"delay10", "isConnected", "available", "read", "switch", "fortest",
               "move", "delay", "println", "click", "clickln", "print", "printchar", "idle"}
    /\ Len(arrived) <= MaxArrived
    /\ Len(arrivedConn) = Len(arrived)
    /\ dropped \in BOOLEAN

(***************************************************************************)
(* Observations on the logs.                                               *)
(***************************************************************************)
IsHID(e) == e.k \in {"move", "click"}
IsPause(e) == e.k = "delay"

\* The HID reports of a log, in order.
HID(log) == SelectSeq(log, IsHID)

\* The pauses of a log, in order.
Pauses(log) == SelectSeq(log, IsPause)

\* The diagnostic lines of a log: a line is the pieces printed up to a println.
RECURSIVE LinesFrom(_, _)
LinesFrom(log, cur) ==
    IF log = <<>> THEN (IF cur = <<>> THEN <<>> ELSE <<cur>>)
    ELSE LET e == Head(log) IN
         IF e.k = "print" THEN LinesFrom(Tail(log), Append(cur, e.s))
         ELSE IF e.k = "println" THEN <<Append(cur, e.s)>> \o LinesFrom(Tail(log), <<>>)
         ELSE LinesFrom(Tail(log), cur)

Lines(log) == LinesFrom(log, <<>>)

\* An iteration of loop() has just returned; its locals and log are still visible.
IterDone == pc = "delay10" /\ nq > 0

\* The iteration that just returned read byte c after its connection query returned true.
Dispatched(c) == IterDone /\ queried = "true" /\ reads = 1 /\ input = c

\* What the dispatch of the byte read last has emitted so far.
LastOut == hist[Len(hist)].out

\* The dispatch of the n-th byte read is over.
Complete(n) ==
    /\ n <= Len(hist)
    /\ n = Len(hist) => pc \in {"delay10", "isConnected", "available", "read", "idle"}

\* This step of the loop takes a byte from the serial input.
Consumes == Len(hist') > Len(hist)

\* This step of the loop emits a HID report.
EmitsHID == Len(HID(iterLog')) > Len(HID(iterLog)) /\ pc \in {"move", "click"}

(***************************************************************************)
(* C1.  A recognized byte read in an iteration whose connection query      *)
(* returned true yields exactly its documented HID reports and exactly one *)
(* diagnostic line: two moves for w, s, a, d; one click for c, r, m.       *)
(***************************************************************************)
C1_Reports(c) ==
    CASE c = 119 -> <<MoveEv(0, -127), MoveEv(0, -127)>>
      [] c = 115 -> <<MoveEv(0, 127), MoveEv(0, 127)>>
      [] c = 97 -> <<MoveEv(-50, 0), MoveEv(-50, 0)>>
      [] c = 100 -> <<MoveEv(50, 0), MoveEv(50, 0)>>
      [] c = 99 -> <<ClickEv("MOUSE_LEFT")>>
      [] c = 114 -> <<ClickEv("MOUSE_RIGHT")>>
      [] c = 109 -> <<ClickEv("MOUSE_MIDDLE")>>

C1_Line(c) ==
    CASE c = 119 -> "↑" [] c = 115 -> "↓" [] c = 97 -> "←" [] c = 100 -> "→"
      [] c = 99 -> "Click" [] c = 114 -> "Right click" [] c = 109 -> "Middle click"

\* C1: every recognized byte dispatched gives its documented reports and its one diagnostic line.
C1_RecognizedDispatch ==
    \A c \in {119, 115, 97, 100, 99, 114, 109} :
        Dispatched(c) =>
            /\ HID(iterLog) = C1_Reports(c)
            /\ Lines(iterLog) = << <<C1_Line(c)>> >>

C1_Witness ==
    /\ Dispatched(97)
    /\ Len(HID(iterLog)) = 2
    /\ \E n \in 1..Len(hist) : hist[n].ch = 114 /\ Complete(n) /\ Len(HID(hist[n].out)) = 1

(***************************************************************************)
(* C2.  A byte outside {w, s, a, d, c, r, m} read while connected yields   *)
(* no HID report and exactly one diagnostic line, "Unknown input: "        *)
(* followed by that byte.                                                  *)
(***************************************************************************)
C2_Name(c) == CASE c = 122 -> "z" [] c = 87 -> "W"

\* C2: an unrecognized byte gives zero reports and the one line naming it.
C2_UnknownDispatch ==
    \A c \in Chars \ {119, 115, 97, 100, 99, 114, 109} :
        Dispatched(c) =>
            /\ HID(iterLog) = <<>>
            /\ Lines(iterLog) = << <<"Unknown input: ", C2_Name(c)>> >>

C2_Witness ==
    /\ Dispatched(87)
    /\ Len(Lines(iterLog)) = 1
    /\ HID(iterLog) = <<>>

(***************************************************************************)
(* C3.  As stated: whenever the status is false, the loop neither takes a  *)
(* byte nor emits a report.  The status is read once, at line 13; what the *)
(* iteration does afterwards no longer looks at it.                        *)
(***************************************************************************)
\* C3 as stated: no step taken while the status is false consumes a byte or emits a report.
C3_Original == [][~connected => ~(Consumes \/ EmitsHID)]_vars

\* C3 amended: a byte is consumed or a report emitted only in an iteration whose
\* connection query returned true, and an iteration whose query returned false
\* leaves the pending bytes where they are.
C3_QueryGuards ==
    [][/\ (Consumes \/ EmitsHID) => queried = "true"
       /\ (queried = "false" /\ pc = "idle") => (Len(rxbuf') >= Len(rxbuf) /\ ~Consumes)]_vars

C3_Witness ==
    /\ IterDone
    /\ queried = "false"
    /\ Len(rxbuf) = 2
    /\ hist = <<>>

(***************************************************************************)
(* C4.  As stated: a burst is move, pause, move, diagnostic; one pause.    *)
(* The for loop pauses after each move, the second one included.           *)
(***************************************************************************)
C4_Move(c) ==
    CASE c = 119 -> MoveEv(0, -127) [] c = 115 -> MoveEv(0, 127)
      [] c = 97 -> MoveEv(-50, 0) [] c = 100 -> MoveEv(50, 0)

C4_Pause(c) ==
    CASE c = 119 -> DelayEv(100) [] c = 115 -> DelayEv(100)
      [] c = 97 -> DelayEv(50) [] c = 100 -> DelayEv(40)

\* C4 as stated: the burst is move, pause, move, diagnostic, with exactly one pause.
C4_Original ==
    \A c \in {119, 115, 97, 100} :
        Dispatched(c) =>
            /\ LastOut = <<C4_Move(c), C4_Pause(c), C4_Move(c), PrintlnEv(C1_Line(c))>>
            /\ Len(Pauses(LastOut)) = 1

\* C4 amended: the burst is move, pause, move, pause, diagnostic: a pause follows
\* each of the two moves, and the diagnostic follows the second pause.
C4_BurstSequence ==
    \A c \in {119, 115, 97, 100} :
        Dispatched(c) =>
            /\ LastOut = <<C4_Move(c), C4_Pause(c), C4_Move(c), C4_Pause(c),
                           PrintlnEv(C1_Line(c))>>
            /\ Len(Pauses(LastOut)) = 2

C4_Witness ==
    /\ Dispatched(100)
    /\ Len(LastOut) = 5
    /\ LastOut[4] = DelayEv(40)

(***************************************************************************)
(* C5.  An iteration reads at most one byte.  With a byte available and    *)
(* the device connected it takes exactly the oldest byte and dispatches    *)
(* it; with no byte available it reads nothing, emits nothing and leaves   *)
(* the buffer as it is; Serial.read() never has to wait.                   *)
(***************************************************************************)
C5_State ==
    /\ reads <= 1
    /\ pc = "read" => Len(rxbuf) > 0
    /\ (IterDone /\ queried = "true" /\ avail = "true") =>
            /\ reads = 1
            /\ Len(hist) <= Len(arrived)
            /\ input = arrived[Len(hist)]
            /\ LastOut # <<>>
    /\ (IterDone /\ avail = "false") =>
            /\ reads = 0
            /\ iterLog = <<DelayEv(10)>>

C5_Step ==
    /\ (rxbuf' # rxbuf /\ arrived' = arrived) =>
            /\ pc = "read"
            /\ reads = 0
            /\ rxbuf' = Tail(rxbuf)
            /\ input' = Head(rxbuf)
    /\ (pc = "available" /\ pc' # pc /\ rxbuf = <<>>) =>
            /\ pc' = "delay10"
            /\ rxbuf' = rxbuf
            /\ hist' = hist

\* C5: at most one byte per iteration, the oldest one; nothing happens without a byte; no waiting.
C5_OneBytePerIteration == [](C5_State) /\ [][C5_Step]_vars

C5_Witness ==
    /\ IterDone
    /\ reads = 1
    /\ avail = "true"
    /\ Len(rxbuf) = 1
    /\ Len(hist) = 1

(***************************************************************************)
(* C6.  Dispatch is stateless: two dispatches of the same byte emit the    *)
(* same sequence of reports, pauses and diagnostics, whatever was          *)
(* dispatched before.                                                      *)
(***************************************************************************)
\* C6: any two completed dispatches of the same byte have identical output.
C6_Stateless ==
    \A m, n \in 1..Len(hist) :
        (Complete(m) /\ Complete(n) /\ hist[m].ch = hist[n].ch) =>
            hist[m].out = hist[n].out

C6_Witness ==
    /\ Len(hist) = 2
    /\ Complete(2)
    /\ hist[1].ch = 119
    /\ hist[2].ch = 119
    /\ Len(hist[2].out) = 5

(***************************************************************************)
(* C7.  As stated: a byte that arrives while the device is disconnected    *)
(* never produces a report or a diagnostic, also after the connection is   *)
(* established.  The loop does not read while disconnected, so the byte    *)
(* stays in the receive buffer and is dispatched later.                    *)
(***************************************************************************)
\* C7 as stated: a byte that arrived while disconnected never produces any output.
C7_Original ==
    \A n \in 1..Len(hist) :
        (n <= Len(arrivedConn) /\ ~arrivedConn[n]) =>
            (HID(hist[n].out) = <<>> /\ Lines(hist[n].out) = <<>>)

\* C7 amended: a byte that arrived while disconnected is kept: it is either still
\* pending in the receive buffer, in its place, or it has been read in its turn;
\* and an iteration whose connection query returned false emits no report and no
\* diagnostic.
C7_KeptWhileDisconnected ==
    /\ \A n \in 1..Len(arrived) :
        ~arrivedConn[n] =>
            \/ n <= Len(hist) /\ hist[n].ch = arrived[n]
            \/ /\ n > Len(hist)
               /\ n - Len(hist) <= Len(rxbuf)
               /\ rxbuf[n - Len(hist)] = arrived[n]
    /\ (IterDone /\ queried = "false") =>
            (HID(iterLog) = <<>> /\ Lines(iterLog) = <<>>)

C7_Witness ==
    /\ Len(arrived) >= 1
    /\ ~arrivedConn[1]
    /\ Complete(1)
    /\ hist[1].ch = 99
    /\ HID(hist[1].out) = <<ClickEv("MOUSE_LEFT")>>

(***************************************************************************)
(* C8.  A motion burst is not interruptible: after its first move the loop *)
(* neither queries the status nor reads a byte until the burst has emitted *)
(* its second move, its pauses and its diagnostic line.                    *)
(***************************************************************************)
C8_Step ==
    InBurst =>
        /\ nq' = nq
        /\ reads' = reads
        /\ Len(hist') = Len(hist)
        /\ rxbuf' # rxbuf => arrived' # arrived
        /\ pc' \in {"fortest", "move", "delay", "println", "delay10"}
        /\ pc' = "delay10" =>
            /\ Len(HID(iterLog')) = 2
            /\ Len(Pauses(iterLog')) = 3
            /\ Len(Lines(iterLog')) = 1
            /\ iterLog'[Len(iterLog')].k = "println"

\* C8: once a burst has started, it runs to its end before the next query or read.
C8_BurstRunsToEnd == [][C8_Step]_vars

C8_Witness ==
    /\ IterDone
    /\ dropped
    /\ ~connected
    /\ Len(rxbuf) > 0
    /\ Len(HID(iterLog)) = 2
    /\ Len(Lines(iterLog)) = 1

(***************************************************************************)
(* C9.  The status is queried exactly once per iteration, before any read: *)
(* whatever the loop reads or emits happens in an iteration whose query    *)
(* returned true, and an iteration whose query returned false does only    *)
(* the 500 ms idle delay.                                                  *)
(***************************************************************************)
\* C9: one query per iteration; reads and output only after a true answer; idle otherwise.
C9_SingleQuery ==
    /\ nq <= 1
    /\ pc \notin {"delay10", "isConnected"} => nq = 1
    /\ IterDone => nq = 1
    /\ (reads > 0 \/ avail # None) => queried = "true"
    /\ (HID(iterLog) # <<>> \/ Lines(iterLog) # <<>>) => queried = "true"
    /\ pc \in {"available", "read", "switch", "fortest", "move", "delay", "println",
               "click", "clickln", "print", "printchar"} => queried = "true"
    /\ pc = "idle" => queried = "false"
    /\ (IterDone /\ queried = "false") =>
            /\ iterLog = <<DelayEv(10), DelayEv(500)>>
            /\ reads = 0
            /\ avail = None

C9_Witness ==
    /\ IterDone
    /\ queried = "false"
    /\ connected
    /\ Len(rxbuf) > 0
    /\ Len(hist) = 1

(***************************************************************************)
(* C10.  Bytes are dispatched in arrival order, each at most once, none is *)
(* lost: the bytes read are a prefix of the bytes arrived, and if the      *)
(* status stays true from some point on, every byte that arrived is        *)
(* eventually read and its dispatch completed.                             *)
(***************************************************************************)
C10_Prefix ==
    /\ Len(hist) <= Len(arrived)
    /\ \A n \in 1..Len(hist) : hist[n].ch = arrived[n]

\* C10: the bytes read are a prefix of the bytes arrived; under a lasting connection each is dispatched.
C10_InOrderNoLoss ==
    /\ []C10_Prefix
    /\ \A n \in 1..MaxArrived :
        (<>[]connected) => ((Len(arrived) >= n) ~> Complete(n))

C10_Witness ==
    /\ Len(hist) = 2
    /\ Complete(2)
    /\ hist[1].ch = 122
    /\ hist[2].ch = 99
    /\ arrived = <<122, 99>>
    /\ rxbuf = <<>>
====
